---- MODULE Spec2Model ----
(***************************************************************************)
(* Model of src/pipeline.py: the crime-data pipeline                        *)
(*   ingest_data -> stage_data -> ingest_data -> primary_data ->            *)
(*   ingest_data -> reporting_data, sequenced by main().                    *)
(*                                                                          *)
(* Tables are pandas DataFrames: a set of column names, a sequence of rows  *)
(* (functions from column name to cell) and the set of columns whose dtype  *)
(* is 'category'.  A cell is Null (NaN/None) or Some(v).                    *)
(***************************************************************************)
EXTENDS Integers, Sequences, FiniteSets, TLC

VARIABLES
    pc,            \* position of the running function
    fs,            \* the filesystem: path -> file
    df,            \* first table argument / main's df
    df_outcomes,   \* main's df_outcomes
    df_staged,     \* main's df_staged
    df_primary,    \* main's df_primary
    ret,           \* the table a function works on / returns, or an exception
    log,           \* the logging calls made so far
    started,       \* stage functions invoked in this run
    written,       \* paths written by to_csv in this run
    observed       \* the installed pandas' default for groupby(observed=)

vars == <<pc, fs, df, df_outcomes, df_staged, df_primary, ret, log, started, written, observed>>

---------------------------------------------------------------------------
(* Bounds of the model *)

MaxIncidents == 2
MaxOutcomes == 2
MaxStagedRows == 2
MaxPrimaryRows == 3
MaxCatRows == 2
MaxRunRows == 1

---------------------------------------------------------------------------
(* Cells and values *)

Null == <<>>
Some(v) == <<v>>
notnull(c) == c # Null
Val(c) == c[1]

RAW_DATA_FILE == "2022-01-cheshire-street.csv"
OUTCOMES_DATA_FILE == "2022-01-cheshire-outcomes.csv"
STAGED_DATA_FILE == "staged_cheshire_street.csv"
PRIMARY_DATA_FILE == "primary_cheshire_street.csv"
REPORTING_DATA_FILE == "reporting_cheshire_street.csv"
Paths == {RAW_DATA_FILE, OUTCOMES_DATA_FILE, STAGED_DATA_FILE, PRIMARY_DATA_FILE, REPORTING_DATA_FILE}

None == [kind |-> "None"]
Unset == [kind |-> "unset"]
Raise(e) == [kind |-> "raise", exc |-> e]
Table(c, r, k) == [kind |-> "table", cols |-> c, rows |-> r, cat |-> k]
IsTable(t) == t.kind = "table"
IsRaise(t) == t.kind = "raise"

\* The concatenation of the sequences f[1] \o ... \o f[n].
RECURSIVE Flatten(_, _)
Flatten(f, n) == IF n = 0 THEN <<>> ELSE Flatten(f, n - 1) \o f[n]

\* All sequences over S of length at most n.
SeqsUpTo(S, n) == UNION {[1..k -> S] : k \in 0..n}

---------------------------------------------------------------------------
(* categorize_outcome *)

\* Mutant: 'Awaiting court outcome' listed in the wrong branch.
NoFurtherActionLabelsAwaiting ==
    <<"Unable to prosecute suspect",
      "Investigation complete; no suspect identified",
      "Status update unavailable",
      "Awaiting court outcome">>

NoFurtherActionLabels ==
    <<"Unable to prosecute suspect",
      "Investigation complete; no suspect identified",
      "Status update unavailable">>

NonCriminalLabels ==
    <<"Local resolution",
      "Offender given a caution",
      "Action to be taken by another organisation",
      "Awaiting court outcome">>

PublicInterestLabels ==
    <<"Further investigation is not in the public interest",
      "Further action is not in the public interest",
      "Formal action is not in the public interest">>

\* Python's `outcome in [list of str]`: NaN/None equals no string.
InList(outcome, lst) == notnull(outcome) /\ \E i \in 1..Len(lst) : lst[i] = Val(outcome)

categorize_outcome(outcome) ==
    IF InList(outcome, NoFurtherActionLabels) THEN "No Further Action"
    ELSE IF InList(outcome, NonCriminalLabels) THEN "Non-criminal Outcome"
    ELSE IF InList(outcome, PublicInterestLabels) THEN "Public Interest Consideration"
    ELSE "Unknown"

---------------------------------------------------------------------------
(* stage_data's transformations *)

\* dtype of the 'Crime ID' column as read_csv infers it: a non-empty column
\* holding only empty fields is float64 (all NaN), anything else is object.
KeyDtype(t) ==
    IF t.rows # <<>> /\ \A i \in 1..Len(t.rows) : t.rows[i]["Crime ID"] = Null
    THEN "float64" ELSE "object"

\* pandas joins on key values and matches a null key with a null key.
KeyMatch(a, b) == a = b

\* The left row with the joined 'Outcome type'; pandas suffixes the columns
\* _x/_y when the left table has an 'Outcome type' of its own.
Joined(t, row, ot) ==
    IF "Outcome type" \in t.cols
    THEN [c \in (t.cols \ {"Outcome type"}) \cup {"Outcome type_x", "Outcome type_y"} |->
            IF c = "Outcome type_x" THEN row["Outcome type"]
            ELSE IF c = "Outcome type_y" THEN ot
            ELSE row[c]]
    ELSE [c \in t.cols \cup {"Outcome type"} |->
            IF c = "Outcome type" THEN ot ELSE row[c]]

MergeBlock(t, o, i) ==
    LET row == t.rows[i]
        m == SelectSeq(o.rows, LAMBDA r : KeyMatch(r["Crime ID"], row["Crime ID"]))
    IN  IF m = <<>> THEN <<Joined(t, row, Null)>>
        ELSE [j \in 1..Len(m) |-> Joined(t, row, m[j]["Outcome type"])]

\* pd.merge refuses to join a float64 key with an object key (ValueError)
\* unless one of the two tables is empty.
merge_data(t, o) ==
    IF ~({"Crime ID", "Outcome type"} \subseteq o.cols) THEN Raise("KeyError")
    ELSE IF "Crime ID" \notin t.cols THEN Raise("KeyError")
    ELSE IF t.rows # <<>> /\ o.rows # <<>> /\ KeyDtype(t) # KeyDtype(o) THEN Raise("ValueError")
    ELSE Table(IF "Outcome type" \in t.cols
                 THEN (t.cols \ {"Outcome type"}) \cup {"Outcome type_x", "Outcome type_y"}
                 ELSE t.cols \cup {"Outcome type"},
               Flatten([i \in 1..Len(t.rows) |-> MergeBlock(t, o, i)], Len(t.rows)),
               t.cat)

\* The lambda of finaloutcome on one row; the columns it reads.
FinalOutcomeReads(t, row) ==
    IF "Outcome type" \notin t.cols THEN {"Outcome type"}
    ELSE IF notnull(row["Outcome type"]) THEN {"Outcome type"}
    ELSE {"Outcome type", "Last outcome category"}

FinalOutcomeOf(row) ==
    IF notnull(row["Outcome type"]) THEN row["Outcome type"] ELSE row["Last outcome category"]

\* On an empty frame DataFrame.apply probes the lambda with an all-NaN row
\* over the columns; a KeyError there makes apply return a frame, which
\* cannot be assigned to the single column.
finaloutcome(t) ==
    IF t.rows = <<>>
    THEN IF {"Outcome type", "Last outcome category"} \subseteq t.cols
         THEN Table(t.cols \cup {"Final Outcome"}, <<>>, t.cat)
         ELSE Raise("ValueError")
    ELSE IF \E i \in 1..Len(t.rows) : ~(FinalOutcomeReads(t, t.rows[i]) \subseteq t.cols)
    THEN Raise("KeyError")
    ELSE Table(t.cols \cup {"Final Outcome"},
               [i \in 1..Len(t.rows) |->
                   [c \in t.cols \cup {"Final Outcome"} |->
                       IF c = "Final Outcome" THEN FinalOutcomeOf(t.rows[i]) ELSE t.rows[i][c]]],
               t.cat)

apply_categorization(t) ==
    IF "Final Outcome" \notin t.cols THEN Raise("KeyError")
    ELSE Table(t.cols \cup {"Broad Outcome Category"},
               [i \in 1..Len(t.rows) |->
                   [c \in t.cols \cup {"Broad Outcome Category"} |->
                       IF c = "Broad Outcome Category"
                       THEN Some(categorize_outcome(t.rows[i]["Final Outcome"]))
                       ELSE t.rows[i][c]]],
               t.cat)

\* Mutant: 'Final Outcome' is left in the table.
cols_to_delete_short ==
    {"Reported by", "Context", "Location", "Last outcome category", "Outcome type"}

cols_to_delete ==
    {"Reported by", "Context", "Location", "Last outcome category", "Outcome type", "Final Outcome"}

\* DataFrame.drop(columns=...) raises KeyError when a label is missing.
del_values_street(t) ==
    IF ~(cols_to_delete \subseteq t.cols) THEN Raise("KeyError")
    ELSE Table(t.cols \ cols_to_delete,
               [i \in 1..Len(t.rows) |-> [c \in t.cols \ cols_to_delete |-> t.rows[i][c]]],
               t.cat)

---------------------------------------------------------------------------
(* primary_transformations *)

\* Mutant: a missing operand counts as 0 (sum with fill_value=0).
AddFill(a, b) ==
    IF a = Null /\ b = Null THEN Null
    ELSE Some((IF a = Null THEN 0 ELSE Val(a)) + (IF b = Null THEN 0 ELSE Val(b)))

Add(a, b) == IF a = Null \/ b = Null THEN Null ELSE Some(Val(a) + Val(b))

WithLocationSum(t) ==
    IF "Latitude" \in t.cols /\ "Longitude" \in t.cols
    THEN Table(t.cols \cup {"Location Sum"},
               [i \in 1..Len(t.rows) |->
                   [c \in t.cols \cup {"Location Sum"} |->
                       IF c = "Location Sum"
                       THEN Add(t.rows[i]["Latitude"], t.rows[i]["Longitude"])
                       ELSE t.rows[i][c]]],
               t.cat)
    ELSE t

\* The table passed to primary_transformations after the call: the function
\* assigns to its argument's columns, so a KeyError at the second astype
\* leaves 'Crime type' already retyped.
primary_transformations_df(t) ==
    IF ~IsTable(t) THEN t
    ELSE IF "Crime type" \notin t.cols THEN t
    ELSE IF "Broad Outcome Category" \notin t.cols
    THEN Table(t.cols, t.rows, t.cat \cup {"Crime type"})
    ELSE WithLocationSum(Table(t.cols, t.rows, t.cat \cup {"Crime type", "Broad Outcome Category"}))

\* df[...] on None is a TypeError, on a missing column a KeyError;
\* astype('category') changes the dtype of the column only; the table
\* returned is the argument itself.
primary_transformations(t) ==
    IF ~IsTable(t) THEN Raise("TypeError")
    ELSE IF "Crime type" \notin t.cols \/ "Broad Outcome Category" \notin t.cols
    THEN Raise("KeyError")
    ELSE primary_transformations_df(t)

---------------------------------------------------------------------------
(* reporting_aggregation *)

GroupKeys == <<"Crime type", "Broad Outcome Category">>

\* The key values of the model in lexicographic order (groupby sorts its keys).
SortedValues ==
    <<"Burglary", "No Further Action", "Non-criminal Outcome",
      "Public Interest Consideration", "Theft", "Unknown">>

\* groupby(dropna=True): a row with a null key belongs to no group.
Grouped(t) == SelectSeq(t.rows, LAMBDA r : \A k \in 1..2 : notnull(r[GroupKeys[k]]))

\* size() of the group (a, b).
GroupSize(t, a, b) ==
    Cardinality({i \in 1..Len(Grouped(t)) :
        /\ Grouped(t)[i]["Crime type"] = Some(a)
        /\ Grouped(t)[i]["Broad Outcome Category"] = Some(b)})

\* The categories of a categorical column: its distinct non-null values.
Categories(t, c) == {Val(t.rows[i][c]) : i \in {j \in 1..Len(t.rows) : notnull(t.rows[j][c])}}

\* With categorical keys and observed=False the result is reindexed to the
\* product of the categories; otherwise only observed pairs are groups.
IsGroup(t, a, b, obs) ==
    IF t.cat # {} /\ ~obs
    THEN a \in Categories(t, "Crime type") /\ b \in Categories(t, "Broad Outcome Category")
    ELSE GroupSize(t, a, b) > 0

ReportRow(a, b, n) ==
    [c \in {"Crime type", "Broad Outcome Category", "Count"} |->
        IF c = "Crime type" THEN Some(a)
        ELSE IF c = "Broad Outcome Category" THEN Some(b)
        ELSE Some(n)]

reporting_aggregation(t, obs) ==
    IF ~IsTable(t) THEN Raise("AttributeError")
    ELSE IF "Crime type" \notin t.cols \/ "Broad Outcome Category" \notin t.cols
    THEN Raise("KeyError")
    ELSE LET n == Len(SortedValues)
             cell(a, b) == IF IsGroup(t, SortedValues[a], SortedValues[b], obs)
                           THEN <<ReportRow(SortedValues[a], SortedValues[b],
                                            GroupSize(t, SortedValues[a], SortedValues[b]))>>
                           ELSE <<>>
             line(a) == Flatten([b \in 1..n |-> cell(a, b)], n)
         IN  Table({"Crime type", "Broad Outcome Category", "Count"},
                   Flatten([a \in 1..n |-> line(a)], n),
                   t.cat \cap {"Crime type", "Broad Outcome Category"})

---------------------------------------------------------------------------
(* Files: to_csv, read_csv, ingest_data *)

Absent == [kind |-> "absent"]
Directory == [kind |-> "dir"]
Malformed == [kind |-> "malformed"]
Csv(c, l) == [kind |-> "csv", cols |-> c, lines |-> l]

NumCols == {"Latitude", "Longitude", "Location Sum", "Count"}

\* to_csv writes NaN and the empty string as an empty field.
ToField(c, v) == IF v = Null THEN <<>> ELSE IF c \notin NumCols /\ v = Some("") THEN <<>> ELSE v

to_csv(t) ==
    Csv(t.cols, [i \in 1..Len(t.rows) |-> [c \in t.cols |-> ToField(c, t.rows[i][c])]])

\* read_csv reads an empty field as NaN and gives no column the category dtype.
FromField(f) == IF f = <<>> THEN Null ELSE f

read_csv(f) ==
    IF f.kind = "dir" THEN Raise("IsADirectoryError")
    ELSE IF f.kind = "malformed" THEN Raise("ValueError")
    ELSE Table(f.cols, [i \in 1..Len(f.lines) |-> [c \in f.cols |-> FromField(f.lines[i][c])]], {})

Entry(level, msg) == [level |-> level, msg |-> msg]

\* `except <cls>` catches the exception classes the model raises.
ExceptionMatches(exc, cls) == cls = "Exception" \/ exc = cls

\* What ingest_data returns, or the exception that leaves it.
ingest_data(files, path) ==
    IF files[path].kind = "absent" THEN None
    ELSE LET r == read_csv(files[path])
         IN  IF IsRaise(r) /\ ExceptionMatches(r.exc, "ValueError") THEN None ELSE r

ingest_log(files, path) ==
    <<Entry("info", "Starting data ingestion")>> \o
    (IF files[path].kind = "absent" THEN <<Entry("error", "File not found")>>
     ELSE LET r == read_csv(files[path])
          IN  IF IsTable(r) THEN <<Entry("info", "Data ingestion completed successfully")>>
              ELSE IF ExceptionMatches(r.exc, "ValueError")
                   THEN <<Entry("error", "Error reading the CSV file")>>
                   ELSE <<>>)

---------------------------------------------------------------------------
(* Input tables *)

AllIncidentCols ==
    {"Crime ID", "Month", "Reported by", "Crime type", "Context", "Location",
     "Latitude", "Longitude", "Last outcome category"}

IncidentRow(cols, id, loc) ==
    [c \in cols |->
        IF c = "Crime ID" THEN id
        ELSE IF c = "Last outcome category" THEN loc
        ELSE IF c = "Crime type" THEN Some("Theft")
        ELSE IF c = "Context" THEN Null
        ELSE IF c = "Latitude" THEN Some(1)
        ELSE IF c = "Longitude" THEN Some(2)
        ELSE IF c = "Outcome type" THEN Some("Offender given a caution")
        ELSE Some("x")]

IncidentTables(colsets, ids, n) ==
    UNION {{Table(cs, r, {}) :
              r \in SeqsUpTo({IncidentRow(cs, id, loc) :
                                id \in ids, loc \in {Null, Some("Local resolution")}}, n)} :
           cs \in colsets}

OutcomeRow(id, ot) == [c \in {"Crime ID", "Outcome type"} |-> IF c = "Crime ID" THEN id ELSE ot]

OutcomeTables(n) ==
    {Table({"Crime ID", "Outcome type"}, r, {}) :
        r \in SeqsUpTo({OutcomeRow(id, ot) :
                          id \in {Null, Some("A1")},
                          ot \in {Null, Some("Unable to prosecute suspect")}}, n)}

NoFiles == [p \in Paths |-> Absent]

---------------------------------------------------------------------------
(* stage_data, step by step *)

StageColumnSets ==
    {AllIncidentCols, AllIncidentCols \ {"Context"}, AllIncidentCols \cup {"Outcome type"}}

InitStage ==
    /\ pc = "stage_data"
    /\ df \in IncidentTables(StageColumnSets, {Null, Some("A1"), Some("A2")}, MaxIncidents)
    /\ df_outcomes \in OutcomeTables(MaxOutcomes)
    /\ fs = NoFiles
    /\ df_staged = Unset /\ df_primary = Unset /\ ret = Unset
    /\ log = <<Entry("info", "Starting data staging")>>
    /\ started = {"stage_data"} /\ written = {} /\ observed = FALSE

StageStep(from, to, r) ==
    /\ pc = from
    /\ ret' = r
    /\ pc' = IF IsRaise(r) THEN "stage_except" ELSE to
    /\ UNCHANGED <<fs, df, df_outcomes, df_staged, df_primary, log, started, written, observed>>

MergeData == StageStep("stage_data", "merged", merge_data(df, df_outcomes))
FinalOutcome == StageStep("merged", "finalized", finaloutcome(ret))
ApplyCategorization == StageStep("finalized", "categorized", apply_categorization(ret))
DelValuesStreet == StageStep("categorized", "dropped", del_values_street(ret))

StageWrite ==
    /\ pc = "dropped"
    /\ IF fs[STAGED_DATA_FILE].kind = "dir"
       THEN /\ ret' = Raise("IsADirectoryError")
            /\ pc' = "stage_except"
            /\ UNCHANGED <<fs, written, log>>
       ELSE /\ fs' = [fs EXCEPT ![STAGED_DATA_FILE] = to_csv(ret)]
            /\ written' = written \cup {STAGED_DATA_FILE}
            /\ log' = Append(log, Entry("info", "Data staging completed successfully"))
            /\ pc' = "stage_done"
            /\ UNCHANGED ret
    /\ UNCHANGED <<df, df_outcomes, df_staged, df_primary, started, observed>>

StageExcept ==
    /\ pc = "stage_except"
    /\ log' = Append(log, Entry("error", "Error during data staging"))
    /\ pc' = "stage_done"
    /\ UNCHANGED <<fs, df, df_outcomes, df_staged, df_primary, ret, started, written, observed>>

NextStage ==
    \/ MergeData
    \/ FinalOutcome
    \/ ApplyCategorization
    \/ DelValuesStreet
    \/ StageWrite
    \/ StageExcept

SpecStage == InitStage /\ [][NextStage]_vars

---------------------------------------------------------------------------
(* apply_categorization on a column of outcomes *)

CategorizeInputs ==
    {Null, Some(""), Some("Under investigation")}
    \cup {Some(NoFurtherActionLabels[i]) : i \in 1..Len(NoFurtherActionLabels)}
    \cup {Some(NonCriminalLabels[i]) : i \in 1..Len(NonCriminalLabels)}
    \cup {Some(PublicInterestLabels[i]) : i \in 1..Len(PublicInterestLabels)}

InitCategorize ==
    /\ pc = "apply_categorization"
    /\ df \in {Table({"Final Outcome"}, r, {}) :
                 r \in SeqsUpTo({[c \in {"Final Outcome"} |-> v] : v \in CategorizeInputs},
                                MaxCatRows)}
    /\ df_outcomes = Unset /\ df_staged = Unset /\ df_primary = Unset /\ ret = Unset
    /\ fs = NoFiles /\ log = <<>> /\ started = {} /\ written = {} /\ observed = FALSE

\* apply_categorization assigns the new column to its argument and returns it.
CallApplyCategorization ==
    /\ pc = "apply_categorization"
    /\ ret' = apply_categorization(df)
    /\ df' = IF IsTable(apply_categorization(df)) THEN apply_categorization(df) ELSE df
    /\ pc' = "categorized"
    /\ UNCHANGED <<fs, df_outcomes, df_staged, df_primary, log, started, written, observed>>

NextCategorize == CallApplyCategorization

SpecCategorize == InitCategorize /\ [][NextCategorize]_vars

---------------------------------------------------------------------------
(* primary_transformations on a staged table *)

StagedColumnSets ==
    {{"Crime ID", "Crime type", "Broad Outcome Category", "Latitude", "Longitude"},
     {"Crime ID", "Crime type", "Broad Outcome Category", "Latitude"},
     {"Crime ID", "Crime type", "Broad Outcome Category"},
     {"Crime ID", "Broad Outcome Category", "Latitude", "Longitude"}}

StagedRow(cols, ct, boc, lat, lon) ==
    [c \in cols |->
        IF c = "Crime type" THEN ct
        ELSE IF c = "Broad Outcome Category" THEN boc
        ELSE IF c = "Latitude" THEN lat
        ELSE IF c = "Longitude" THEN lon
        ELSE Some("A1")]

StagedTables(n) ==
    UNION {{Table(cs, r, {}) :
              r \in SeqsUpTo({StagedRow(cs, ct, boc, lat, lon) :
                                ct \in {Null, Some("Theft")},
                                boc \in {Some("Unknown"), Some("No Further Action")},
                                lat \in {Null, Some(1), Some(2)},
                                lon \in {Null, Some(1)}}, n)} :
           cs \in StagedColumnSets}

InitPrimary ==
    /\ pc = "primary_transformations"
    /\ df \in StagedTables(MaxStagedRows)
    /\ df_outcomes = Unset /\ df_staged = Unset /\ df_primary = Unset /\ ret = Unset
    /\ fs = NoFiles /\ log = <<>> /\ started = {} /\ written = {} /\ observed = FALSE

\* primary_transformations changes its argument in place and returns it.
CallPrimaryTransformations ==
    /\ pc = "primary_transformations"
    /\ ret' = primary_transformations(df)
    /\ df' = primary_transformations_df(df)
    /\ pc' = "transformed"
    /\ UNCHANGED <<fs, df_outcomes, df_staged, df_primary, log, started, written, observed>>

NextPrimary == CallPrimaryTransformations

SpecPrimary == InitPrimary /\ [][NextPrimary]_vars

---------------------------------------------------------------------------
(* reporting_aggregation on a primary table *)

KeyRow(ct, boc) ==
    [c \in {"Crime type", "Broad Outcome Category"} |-> IF c = "Crime type" THEN ct ELSE boc]

\* Primary tables as read from a file (no categorical column) and as
\* returned by primary_transformations (both keys categorical).
PrimaryTables(n) ==
    {Table({"Crime type", "Broad Outcome Category"}, r, k) :
        r \in SeqsUpTo({KeyRow(ct, boc) :
                          ct \in {Null, Some("Theft"), Some("Burglary")},
                          boc \in {Some("Unknown"), Some("No Further Action")}}, n),
        k \in {{}, {"Crime type", "Broad Outcome Category"}}}

InitReporting ==
    /\ pc = "reporting_aggregation"
    /\ df \in PrimaryTables(MaxPrimaryRows)
    /\ observed \in BOOLEAN
    /\ df_outcomes = Unset /\ df_staged = Unset /\ df_primary = Unset /\ ret = Unset
    /\ fs = NoFiles /\ log = <<>> /\ started = {} /\ written = {}

CallReportingAggregation ==
    /\ pc = "reporting_aggregation"
    /\ ret' = reporting_aggregation(df, observed)
    /\ pc' = "aggregated"
    /\ UNCHANGED <<fs, df, df_outcomes, df_staged, df_primary, log, started, written, observed>>

NextReporting == CallReportingAggregation

SpecReporting == InitReporting /\ [][NextReporting]_vars

---------------------------------------------------------------------------
(* main() and the three stage functions it calls *)

\* The four transformations of stage_data's try block.
stage_transform(t, o) ==
    LET a == merge_data(t, o)
    IN  IF IsRaise(a) THEN a
        ELSE LET b == finaloutcome(a)
             IN  IF IsRaise(b) THEN b
                 ELSE LET c == apply_categorization(b)
                      IN  IF IsRaise(c) THEN c ELSE del_values_street(c)

\* Files an earlier, successful run has left behind.
StaleStaged ==
    to_csv(stage_transform(
        Table(AllIncidentCols, <<IncidentRow(AllIncidentCols, Some("A0"), Null)>>, {}),
        Table({"Crime ID", "Outcome type"}, <<>>, {})))

StalePrimary == to_csv(primary_transformations(read_csv(StaleStaged)))

RunColumnSets ==
    {AllIncidentCols, AllIncidentCols \ {"Context"}, AllIncidentCols \ {"Crime type"}}

Init ==
    /\ pc = "main"
    /\ \E raw \in {Absent, Directory, Malformed}
                  \cup {to_csv(t) : t \in IncidentTables(RunColumnSets, {Null, Some("A1")}, MaxRunRows)},
          out \in {Absent, Directory, Malformed} \cup {to_csv(t) : t \in OutcomeTables(MaxRunRows)},
          stg \in {Absent, Directory, StaleStaged},
          pri \in {Absent, Directory, StalePrimary},
          rep \in {Absent, Directory} :
            fs = [p \in Paths |->
                    IF p = RAW_DATA_FILE THEN raw
                    ELSE IF p = OUTCOMES_DATA_FILE THEN out
                    ELSE IF p = STAGED_DATA_FILE THEN stg
                    ELSE IF p = PRIMARY_DATA_FILE THEN pri
                    ELSE rep]
    /\ df = Unset /\ df_outcomes = Unset /\ df_staged = Unset /\ df_primary = Unset
    /\ ret = Unset /\ log = <<>> /\ started = {} /\ written = {}
    /\ observed \in BOOLEAN

MainStart ==
    /\ pc = "main"
    /\ log' = Append(log, Entry("info", "Pipeline execution started"))
    /\ pc' = "ingest_raw"
    /\ UNCHANGED <<fs, df, df_outcomes, df_staged, df_primary, ret, started, written, observed>>

\* Where main goes when an exception leaves a call inside its try block.
main_handler(exc) == IF ExceptionMatches(exc, "Exception") THEN "main_except" ELSE "propagated"

IngestRaw ==
    /\ pc = "ingest_raw"
    /\ log' = log \o ingest_log(fs, RAW_DATA_FILE)
    /\ LET r == ingest_data(fs, RAW_DATA_FILE)
       IN  IF IsRaise(r)
           THEN ret' = r /\ pc' = main_handler(r.exc) /\ UNCHANGED df
           ELSE df' = r /\ pc' = "ingest_outcomes" /\ UNCHANGED ret
    /\ UNCHANGED <<fs, df_outcomes, df_staged, df_primary, started, written, observed>>

IngestOutcomes ==
    /\ pc = "ingest_outcomes"
    /\ log' = log \o ingest_log(fs, OUTCOMES_DATA_FILE)
    /\ LET r == ingest_data(fs, OUTCOMES_DATA_FILE)
       IN  IF IsRaise(r)
           THEN ret' = r /\ pc' = main_handler(r.exc) /\ UNCHANGED df_outcomes
           ELSE df_outcomes' = r /\ pc' = "gate" /\ UNCHANGED ret
    /\ UNCHANGED <<fs, df, df_staged, df_primary, started, written, observed>>

\* Mutant: the stages run when either table was read.
GateConditionOr(a, b) == a # None \/ b # None

\* if df is not None and df_outcomes is not None
GateCondition(a, b) == a # None /\ b # None

Gate ==
    /\ pc = "gate"
    /\ pc' = IF GateCondition(df, df_outcomes) THEN "stage_data" ELSE "complete"
    /\ UNCHANGED <<fs, df, df_outcomes, df_staged, df_primary, ret, log, started, written, observed>>

\* A stage function: log, transform, to_csv; any exception is logged.
RunStage(name, path, r, startmsg, okmsg, errmsg) ==
    LET ok == IsTable(r) /\ fs[path].kind # "dir"
    IN  /\ started' = started \cup {name}
        /\ fs' = IF ok THEN [fs EXCEPT ![path] = to_csv(r)] ELSE fs
        /\ written' = IF ok THEN written \cup {path} ELSE written
        /\ log' = log \o <<Entry("info", startmsg),
                           IF ok THEN Entry("info", okmsg) ELSE Entry("error", errmsg)>>

StageData ==
    /\ pc = "stage_data"
    /\ RunStage("stage_data", STAGED_DATA_FILE,
                IF IsTable(df) /\ IsTable(df_outcomes)
                THEN stage_transform(df, df_outcomes) ELSE Raise("TypeError"),
                "Starting data staging", "Data staging completed successfully",
                "Error during data staging")
    /\ pc' = "ingest_staged"
    /\ UNCHANGED <<df, df_outcomes, df_staged, df_primary, ret, observed>>

IngestStaged ==
    /\ pc = "ingest_staged"
    /\ log' = log \o ingest_log(fs, STAGED_DATA_FILE)
    /\ LET r == ingest_data(fs, STAGED_DATA_FILE)
       IN  IF IsRaise(r)
           THEN ret' = r /\ pc' = main_handler(r.exc) /\ UNCHANGED df_staged
           ELSE df_staged' = r /\ pc' = "primary_data" /\ UNCHANGED ret
    /\ UNCHANGED <<fs, df, df_outcomes, df_primary, started, written, observed>>

PrimaryData ==
    /\ pc = "primary_data"
    /\ RunStage("primary_data", PRIMARY_DATA_FILE, primary_transformations(df_staged),
                "Starting primary data transformation",
                "Primary data transformation completed successfully",
                "Error during primary data transformation")
    /\ df_staged' = primary_transformations_df(df_staged)
    /\ pc' = "ingest_primary"
    /\ UNCHANGED <<df, df_outcomes, df_primary, ret, observed>>

IngestPrimary ==
    /\ pc = "ingest_primary"
    /\ log' = log \o ingest_log(fs, PRIMARY_DATA_FILE)
    /\ LET r == ingest_data(fs, PRIMARY_DATA_FILE)
       IN  IF IsRaise(r)
           THEN ret' = r /\ pc' = main_handler(r.exc) /\ UNCHANGED df_primary
           ELSE df_primary' = r /\ pc' = "reporting_data" /\ UNCHANGED ret
    /\ UNCHANGED <<fs, df, df_outcomes, df_staged, started, written, observed>>

ReportingData ==
    /\ pc = "reporting_data"
    /\ RunStage("reporting_data", REPORTING_DATA_FILE, reporting_aggregation(df_primary, observed),
                "Starting reporting data aggregation",
                "Reporting data aggregation completed successfully",
                "Error during reporting data aggregation")
    /\ pc' = "complete"
    /\ UNCHANGED <<df, df_outcomes, df_staged, df_primary, ret, observed>>

Complete ==
    /\ pc = "complete"
    /\ log' = Append(log, Entry("info", "Pipeline execution completed successfully"))
    /\ pc' = "done"
    /\ UNCHANGED <<fs, df, df_outcomes, df_staged, df_primary, ret, started, written, observed>>

MainExcept ==
    /\ pc = "main_except"
    /\ log' = Append(log, Entry("critical", "Pipeline execution failed"))
    /\ pc' = "done"
    /\ UNCHANGED <<fs, df, df_outcomes, df_staged, df_primary, ret, started, written, observed>>

Next ==
    \/ MainStart
    \/ IngestRaw
    \/ IngestOutcomes
    \/ Gate
    \/ StageData
    \/ IngestStaged
    \/ PrimaryData
    \/ IngestPrimary
    \/ ReportingData
    \/ Complete
    \/ MainExcept

Spec == Init /\ [][Next]_vars

---------------------------------------------------------------------------
(* Properties *)

Logged(level, msg) == \E i \in 1..Len(log) : log[i] = Entry(level, msg)

CompletionLogged == Logged("info", "Pipeline execution completed successfully")
StageFailed == Logged("error", "Error during data staging")

OutputPaths == {STAGED_DATA_FILE, PRIMARY_DATA_FILE, REPORTING_DATA_FILE}

\* C1 (as claimed): in a run of main() in which the raw or the outcomes
\* ingestion returned no table, no stage function is invoked, no output file
\* is written, the completion entry is logged and no exception reaches the
\* caller.
C1_SkipAndComplete ==
    (pc \in {"done", "propagated"} /\ (df = None \/ df_outcomes = None)) =>
        /\ started = {}
        /\ written = {}
        /\ CompletionLogged
        /\ pc # "propagated"

\* C1 (amended): as above, except that the completion entry is logged exactly
\* when the outcomes ingestion did not raise; when it raises (an exception
\* other than ValueError) the critical entry is logged in its place.
C1_SkipAndCompleteUnlessRaised ==
    (pc \in {"done", "propagated"} /\ (df = None \/ df_outcomes = None)) =>
        /\ started = {}
        /\ written = {}
        /\ \A p \in OutputPaths : fs[p].kind \in {"absent", "dir"} \/ fs[p] \in {StaleStaged, StalePrimary}
        /\ pc # "propagated"
        /\ IF IsRaise(ret)
           THEN /\ df_outcomes = Unset
                /\ ~CompletionLogged
                /\ Logged("critical", "Pipeline execution failed")
           ELSE /\ CompletionLogged
                /\ ~Logged("critical", "Pipeline execution failed")

C1_Witness ==
    /\ pc = "done"
    /\ df = None
    /\ IsTable(df_outcomes)
    /\ CompletionLogged
    /\ fs[RAW_DATA_FILE].kind = "malformed"

\* C2: primary_data is started only if stage_data wrote the staged file in
\* this run and the following ingestion returned a table; reporting_data is
\* started only if primary_data wrote the primary file in this run and the
\* following ingestion returned a table.
C2_StagesGated ==
    /\ "primary_data" \in started =>
          STAGED_DATA_FILE \in written /\ IsTable(df_staged)
    /\ "reporting_data" \in started =>
          PRIMARY_DATA_FILE \in written /\ IsTable(df_primary)

\* C3: when stage_data fails in a run of main(), that run writes neither the
\* primary nor the reporting file, whatever files existed before the run.
C3_FailureLeavesNoOutput ==
    (pc = "done" /\ StageFailed) =>
        PRIMARY_DATA_FILE \notin written /\ REPORTING_DATA_FILE \notin written

---------------------------------------------------------------------------
(* Properties of stage_data's transformations *)

\* The part of a merged row that comes from the incident table.
LeftPart(row) == [c \in (df.cols \ {"Outcome type"}) |-> row[c]]

\* The rows of the merged table that are copies of incident row i.
Copies(i) == {j \in 1..Len(ret.rows) : LeftPart(ret.rows[j]) = LeftPart(df.rows[i])}
Same(i) == {k \in 1..Len(df.rows) : LeftPart(df.rows[k]) = LeftPart(df.rows[i])}

\* Outcome rows whose 'Crime ID' equals that of incident row i: a null
\* equals nothing.
EqualKey(i) == {k \in 1..Len(df_outcomes.rows) :
                  /\ notnull(df.rows[i]["Crime ID"])
                  /\ df_outcomes.rows[k]["Crime ID"] = df.rows[i]["Crime ID"]}

Max(a, b) == IF a >= b THEN a ELSE b

\* C4: in the table produced by merge_data and finaloutcome, 'Final Outcome'
\* is 'Outcome type' when that is non-null and 'Last outcome category'
\* otherwise; the rows of an incident with no matching outcome row (no
\* outcome row's 'Crime ID' equals the incident's, a null equals nothing) have
\* a null 'Outcome type', hence 'Final Outcome' = 'Last outcome category'.
C4_FinalOutcome ==
    (pc = "finalized") =>
        /\ IsTable(ret)
        /\ \A j \in 1..Len(ret.rows) :
              LET row == ret.rows[j]
              IN  IF row["Outcome type"] # Null
                  THEN row["Final Outcome"] = row["Outcome type"]
                  ELSE row["Final Outcome"] = row["Last outcome category"]
        /\ \A i \in 1..Len(df.rows) :
              EqualKey(i) = {} =>
                  \A j \in Copies(i) :
                      /\ ret.rows[j]["Outcome type"] = Null
                      /\ ret.rows[j]["Final Outcome"] = df.rows[i]["Last outcome category"]

\* C7: every incident row appears in the merged table exactly max(1, m)
\* times, m the number of outcome rows whose 'Crime ID' equals the row's; the
\* merged table has at least as many rows as the incidents, and the later
\* steps of stage_data keep the row count.
C7_LeftJoinMultiplicity ==
    /\ (pc = "merged" /\ IsTable(ret)) =>
          /\ Len(ret.rows) >= Len(df.rows)
          /\ \A i \in 1..Len(df.rows) :
                Cardinality(Copies(i)) = Cardinality(Same(i)) * Max(1, Cardinality(EqualKey(i)))
    /\ (pc \in {"finalized", "categorized", "dropped"} /\ IsTable(ret)) =>
          Len(ret.rows) = Len(merge_data(df, df_outcomes).rows)

\* C10: an incident row whose 'Crime ID' is null is joined to no outcome row:
\* it appears once in the merged table, with a null 'Outcome type'.
C10_NullKeyNeverJoined ==
    (pc = "merged" /\ IsTable(ret)) =>
        \A i \in 1..Len(df.rows) :
            df.rows[i]["Crime ID"] = Null =>
                /\ Cardinality(Copies(i)) = Cardinality(Same(i))
                /\ \A j \in Copies(i) : ret.rows[j]["Outcome type"] = Null

DroppedColumns ==
    {"Reported by", "Context", "Location", "Last outcome category", "Outcome type", "Final Outcome"}

StagedFileColumnsRight ==
    STAGED_DATA_FILE \in written =>
        LET f == fs[STAGED_DATA_FILE]
        IN  /\ f.kind = "csv"
            /\ f.cols \cap DroppedColumns = {}
            /\ "Broad Outcome Category" \in f.cols
            /\ f.cols = (df.cols \ DroppedColumns) \cup {"Broad Outcome Category"}
            /\ \A i \in 1..Len(f.lines) : DOMAIN f.lines[i] = f.cols

LacksDroppedColumn == ~(({"Reported by", "Context", "Location", "Last outcome category"}) \subseteq df.cols)

\* C9 (as claimed): a staged file written by stage_data has none of the
\* dropped columns, has 'Broad Outcome Category' and keeps every other
\* incident column; and a staged file is produced also for an incidents table
\* that lacks some of the columns to be dropped.
C9_DroppedUnconditionally ==
    /\ StagedFileColumnsRight
    /\ (pc = "stage_done" /\ LacksDroppedColumn /\ IsTable(merge_data(df, df_outcomes))) =>
          STAGED_DATA_FILE \in written

\* C9 (amended): a staged file written by stage_data has none of the dropped
\* columns, has 'Broad Outcome Category' and keeps every other incident
\* column; for an incidents table that lacks one of the columns to be dropped
\* stage_data logs an error and writes no staged file.
C9_DroppedWheneverWritten ==
    /\ StagedFileColumnsRight
    /\ (pc = "stage_done" /\ LacksDroppedColumn) =>
          STAGED_DATA_FILE \notin written /\ StageFailed

C9_Witness ==
    /\ pc = "stage_done"
    /\ STAGED_DATA_FILE \in written
    /\ Len(fs[STAGED_DATA_FILE].lines) > Len(df.rows)
    /\ Len(df.rows) > 0

---------------------------------------------------------------------------
(* Properties of categorize_outcome *)

FourCategories ==
    {"No Further Action", "Non-criminal Outcome", "Public Interest Consideration", "Unknown"}

\* The glossary's lookup.
GlossaryCategory(x) ==
    IF x \in {Some("Unable to prosecute suspect"),
              Some("Investigation complete; no suspect identified"),
              Some("Status update unavailable")}
    THEN "No Further Action"
    ELSE IF x \in {Some("Local resolution"), Some("Offender given a caution"),
                   Some("Action to be taken by another organisation"),
                   Some("Awaiting court outcome")}
    THEN "Non-criminal Outcome"
    ELSE IF x \in {Some("Further investigation is not in the public interest"),
                   Some("Further action is not in the public interest"),
                   Some("Formal action is not in the public interest")}
    THEN "Public Interest Consideration"
    ELSE "Unknown"

\* The branches of categorize_outcome tried in the opposite order.
CategorizeReversed(x) ==
    IF InList(x, PublicInterestLabels) THEN "Public Interest Consideration"
    ELSE IF InList(x, NonCriminalLabels) THEN "Non-criminal Outcome"
    ELSE IF InList(x, NoFurtherActionLabels) THEN "No Further Action"
    ELSE "Unknown"

Elements(lst) == {lst[i] : i \in 1..Len(lst)}

\* The table `after` returned for the column of outcomes in `before`.
CategorizedRight(before, after) ==
    /\ Len(after.rows) = Len(before.rows)
    /\ \A i \in 1..Len(after.rows) :
          LET x == before.rows[i]["Final Outcome"]
              y == after.rows[i]["Broad Outcome Category"]
          IN  /\ y \in {Some(c) : c \in FourCategories}
              /\ y = Some(GlossaryCategory(x))
              /\ y = Some(CategorizeReversed(x))
              /\ after.rows[i]["Final Outcome"] = x

\* C5: categorize_outcome maps every input to one of the four categories, as
\* the glossary says; the three label lists are pairwise disjoint, so the
\* order of the branches does not matter.
C5_CategorizeTotal ==
    [][(pc = "apply_categorization") =>
          /\ IsTable(ret')
          /\ df' = ret'
          /\ CategorizedRight(df, ret')
          /\ Elements(NoFurtherActionLabels) \cap Elements(NonCriminalLabels) = {}
          /\ Elements(NoFurtherActionLabels) \cap Elements(PublicInterestLabels) = {}
          /\ Elements(NonCriminalLabels) \cap Elements(PublicInterestLabels) = {}]_vars

C5_Witness ==
    /\ pc = "categorized"
    /\ Len(ret.rows) = 2
    /\ df.rows[1]["Final Outcome"] = Null
    /\ ret.rows[1]["Broad Outcome Category"] = Some("Unknown")
    /\ df.rows[2]["Final Outcome"] = Some("Awaiting court outcome")
    /\ ret.rows[2]["Broad Outcome Category"] = Some("Non-criminal Outcome")

---------------------------------------------------------------------------
(* Properties of primary_transformations *)

\* The table `after` returned for the table `before` given.
LocationSumRight(before, after) ==
    /\ ("Location Sum" \in after.cols) <=> ({"Latitude", "Longitude"} \subseteq before.cols)
    /\ after.cols \ {"Location Sum"} = before.cols
    /\ Len(after.rows) = Len(before.rows)
    /\ \A i \in 1..Len(after.rows) :
          /\ DOMAIN after.rows[i] = after.cols
          /\ \A c \in before.cols : after.rows[i][c] = before.rows[i][c]
          /\ "Location Sum" \in after.cols =>
                LET lat == before.rows[i]["Latitude"]
                    lon == before.rows[i]["Longitude"]
                IN  after.rows[i]["Location Sum"] =
                        IF lat = Null \/ lon = Null THEN Null ELSE Some(lat[1] + lon[1])

\* C8: the result of primary_transformations has 'Location Sum' exactly when
\* the table given has both 'Latitude' and 'Longitude'; it is then the row's
\* sum, null when an operand is null; otherwise no column is added; the values
\* of 'Crime type' and 'Broad Outcome Category' are unchanged.  The result is
\* the argument itself, changed in place.
C8_LocationSum ==
    [][(pc = "primary_transformations" /\ IsTable(ret')) =>
          LocationSumRight(df, ret') /\ df' = ret']_vars

C8_Witness ==
    /\ pc = "transformed"
    /\ IsTable(ret)
    /\ df = ret
    /\ Len(ret.rows) = 2
    /\ "Location Sum" \in ret.cols
    /\ ret.rows[1]["Location Sum"] = Some(3)
    /\ ret.rows[2]["Latitude"] # Null
    /\ ret.rows[2]["Location Sum"] = Null
    /\ ret.cat = {"Crime type", "Broad Outcome Category"}

---------------------------------------------------------------------------
(* Properties of reporting_aggregation *)

RECURSIVE SumCount(_, _)
SumCount(rows, n) == IF n = 0 THEN 0 ELSE SumCount(rows, n - 1) + rows[n]["Count"][1]

\* The pairs of key values of the rows of the primary table.
ObservedPairs == {<<df.rows[i]["Crime type"], df.rows[i]["Broad Outcome Category"]>> : i \in 1..Len(df.rows)}

\* C6: the counts of the reporting rows add up to the number of rows of the
\* primary table, there is exactly one reporting row for each pair of key
\* values observed in it, and no reporting row has Count = 0.
C6_CountsAddUp ==
    (pc = "aggregated" /\ IsTable(ret)) =>
        /\ SumCount(ret.rows, Len(ret.rows)) = Len(df.rows)
        /\ \A p \in ObservedPairs :
              Cardinality({j \in 1..Len(ret.rows) :
                  ret.rows[j]["Crime type"] = p[1] /\ ret.rows[j]["Broad Outcome Category"] = p[2]}) = 1
        /\ \A j \in 1..Len(ret.rows) :
              <<ret.rows[j]["Crime type"], ret.rows[j]["Broad Outcome Category"]>> \in ObservedPairs
        /\ \A j \in 1..Len(ret.rows) : ret.rows[j]["Count"] # Some(0)

====
